---- MODULE Spec2Model ----
(***************************************************************************)
(* tetrisrun: a driver that forwards translated key presses to stdout      *)
(* (the forwarder goroutine) and injects a periodic drop 'k' (the Drop     *)
(* loop of main).  The two loops share stdout and the unbuffered channels  *)
(* done and pause.                                                         *)
(*                                                                         *)
(* Bytes are written as strings: "i", "w", ... for printable bytes, and    *)
(* "ESC" (0x1b), "NUL" (0x00), "ETX" (0x03), "EOT" (0x04), "SUB" (0x1a),   *)
(* "SP" (space).  "x" stands for a byte no case of readKey names.          *)
(* Durations are in microseconds.                                          *)
(***************************************************************************)
EXTENDS Integers, Sequences, FiniteSets, TLC

\* ---------------------------------------------------------------- constants

escTimeout == 100000
initialDropRate == 1000000
finalDropRate == 400
dropRateDelta == 1000

\* ------------------------------------------------------------------- bounds

\* Keys the terminal holds that the program has not read yet.
MaxBuf == 1
\* Successful drops of a run of Spec and of ScriptSpec.
MaxDrops == 2
\* Successful drops of a run of DropSpec (past the 1000 that exhaust the rate).
DropRun == 1002

\* -------------------------------------------------------------------- bytes

MoveKeys == {"i", "w", "j", "a", "k", "s", "l", "d"}
QuitKeys == {"q", "NUL", "ETX", "EOT", "SUB"}
PauseKeys == {"p", "SP"}
ArrowKeys == {"A", "B", "C", "D"}
Bytes == MoveKeys \cup QuitKeys \cup PauseKeys \cup ArrowKeys \cup {"ESC", "[", "x"}

VARIABLES
    stdin,        \* bytes typed and not yet read (the head is read next)
    inEnd,        \* "open", or how reads fail once stdin is drained: "eof", "err"
    pipe,         \* stdout's reader: "open" or "closed"
    fpc,          \* the forwarder goroutine's position
    key,          \* the key readKey returned
    err,          \* the error readKey returned: "nil", "EOF" (io.EOF), "EIO"
    helper,       \* the ESC helper goroutine: "none" or "reading"
    readBracket,  \* the buffered channel readBracket (capacity 1)
    mpc,          \* main's position in the Drop loop
    dropRate,     \* main's dropRate
    drops,        \* successful drop emissions so far
    timer,        \* the timer of main's last time.After(dropRate)
    wrote,        \* the byte the last step wrote to stdout, and who wrote it
    logged,       \* what the last step printed to stderr
    wfail,        \* some write to stdout has failed
    hist          \* in scripted runs: the bytes read and the forwarder's bytes

vars == <<stdin, inEnd, pipe, fpc, key, err, helper, readBracket, mpc, dropRate,
          drops, timer, wrote, logged, wfail, hist>>

None == [who |-> "none", b |-> "none"]

\* ------------------------------------------------------------ pure functions

\* readKey returning the alias it read instead of the canonical byte.
readKeySwitch_Raw(b) ==
    CASE b \in MoveKeys -> [kind |-> "key", key |-> b]
      [] b \in QuitKeys -> [kind |-> "quit", key |-> "NUL"]
      [] b \in PauseKeys -> [kind |-> "pause", key |-> "NUL"]
      [] b = "ESC" -> [kind |-> "esc", key |-> "NUL"]
      [] OTHER -> [kind |-> "skip", key |-> "NUL"]

\* readKey with the 'k', 's' case returning 'j' ("ijjl").
readKeySwitch_ijjl(b) ==
    CASE b \in {"i", "w"} -> [kind |-> "key", key |-> "i"]
      [] b \in {"j", "a"} -> [kind |-> "key", key |-> "j"]
      [] b \in {"k", "s"} -> [kind |-> "key", key |-> "j"]
      [] b \in {"l", "d"} -> [kind |-> "key", key |-> "l"]
      [] b \in {"q", "NUL", "ETX", "EOT", "SUB"} -> [kind |-> "quit", key |-> "NUL"]
      [] b \in {"p", "SP"} -> [kind |-> "pause", key |-> "NUL"]
      [] b = "ESC" -> [kind |-> "esc", key |-> "NUL"]
      [] OTHER -> [kind |-> "skip", key |-> "NUL"]

\* readKey with ^Z missing from the quit case.
readKeySwitch_NoSub(b) ==
    CASE b \in {"i", "w"} -> [kind |-> "key", key |-> "i"]
      [] b \in {"j", "a"} -> [kind |-> "key", key |-> "j"]
      [] b \in {"k", "s"} -> [kind |-> "key", key |-> "k"]
      [] b \in {"l", "d"} -> [kind |-> "key", key |-> "l"]
      [] b \in {"q", "NUL", "ETX", "EOT"} -> [kind |-> "quit", key |-> "NUL"]
      [] b \in {"p", "SP"} -> [kind |-> "pause", key |-> "NUL"]
      [] b = "ESC" -> [kind |-> "esc", key |-> "NUL"]
      [] OTHER -> [kind |-> "skip", key |-> "NUL"]

\* The outer switch of readKey on the byte read.
readKeySwitch(b) ==
    CASE b \in {"i", "w"} -> [kind |-> "key", key |-> "i"]
      [] b \in {"j", "a"} -> [kind |-> "key", key |-> "j"]
      [] b \in {"k", "s"} -> [kind |-> "key", key |-> "k"]
      [] b \in {"l", "d"} -> [kind |-> "key", key |-> "l"]
      [] b \in {"q", "NUL", "ETX", "EOT", "SUB"} -> [kind |-> "quit", key |-> "NUL"]
      [] b \in {"p", "SP"} -> [kind |-> "pause", key |-> "NUL"]
      [] b = "ESC" -> [kind |-> "esc", key |-> "NUL"]
      [] OTHER -> [kind |-> "skip", key |-> "NUL"]

\* The inner switch letting a command byte after ESC [ through.
arrowSwitch_Through(b) ==
    CASE b = "A" -> [kind |-> "key", key |-> "i"]
      [] b = "B" -> [kind |-> "key", key |-> "k"]
      [] b = "C" -> [kind |-> "key", key |-> "l"]
      [] b = "D" -> [kind |-> "key", key |-> "j"]
      [] b \in {"i", "j", "k", "l"} -> [kind |-> "key", key |-> b]
      [] OTHER -> [kind |-> "skip", key |-> "NUL"]

\* The inner switch with the C and D cases exchanged.
arrowSwitch_Swapped(b) ==
    CASE b = "A" -> [kind |-> "key", key |-> "i"]
      [] b = "B" -> [kind |-> "key", key |-> "k"]
      [] b = "C" -> [kind |-> "key", key |-> "j"]
      [] b = "D" -> [kind |-> "key", key |-> "l"]
      [] OTHER -> [kind |-> "skip", key |-> "NUL"]

\* The inner switch of readKey on the byte after ESC [.
arrowSwitch(b) ==
    CASE b = "A" -> [kind |-> "key", key |-> "i"]
      [] b = "B" -> [kind |-> "key", key |-> "k"]
      [] b = "C" -> [kind |-> "key", key |-> "l"]
      [] b = "D" -> [kind |-> "key", key |-> "j"]
      [] OTHER -> [kind |-> "skip", key |-> "NUL"]

\* The pause sub-loop ending on p alone.
endsPause_OnlyP(b) == b = "p"

\* The pause sub-loop ends on p or space.
endsPause(b) == b = "p" \/ b = "SP"

\* The helper reporting any byte it read as a bracket.
isBracket_Any(e, b) == e = "nil"

\* What the helper goroutine sends on readBracket.
isBracket(e, b) == e = "nil" /\ b = "["

\* The Drop loop lengthening the interval after a successful drop.
nextDropRate_Grow(r) == IF r > finalDropRate THEN r + dropRateDelta ELSE r

\* The Drop loop's update of dropRate after a successful drop.
nextDropRate(r) == IF r > finalDropRate THEN r - dropRateDelta ELSE r

\* writeByte printing every write error, EPIPE included.
writeLogs_Always(res) == res # "ok"

\* writeByte prints the error unless it is EPIPE.
writeLogs(res) == res # "ok" /\ res # "EPIPE"

\* The forwarder prints readKey's error unless it is io.EOF.
readLogs(e) == e # "nil" /\ e # "EOF"

\* ----------------------------------------------------------- the environment

\* What a write to stdout can return.
WriteResults == IF pipe = "closed" THEN {"EPIPE"} ELSE {"ok", "EIO"}

\* stdin.ReadByte returns (a byte is there, or the stream has ended or failed).
CanRead == stdin # <<>> \/ inEnd # "open"
ReadErr == IF stdin # <<>> THEN "nil" ELSE IF inEnd = "eof" THEN "EOF" ELSE "EIO"
ReadB == IF stdin # <<>> THEN Head(stdin) ELSE "NUL"
Rest == IF stdin # <<>> THEN Tail(stdin) ELSE stdin

\* The process runs until main returns.
Running == mpc # "stopped"

Quiet == wrote' = None /\ logged' = "none"

Consumed == hist' = IF hist.on /\ stdin # <<>>
                    THEN [hist EXCEPT !.in = Append(@, Head(stdin))] ELSE hist

\* ------------------------------------------------------------------ writeByte

\* writeByte(b) by who, the write returning res: the byte reaches stdout when
\* the write succeeds, and the error is printed unless it is EPIPE.
writeByte(who, b, res) ==
    /\ wrote' = IF res = "ok" THEN [who |-> who, b |-> b] ELSE None
    /\ logged' = IF writeLogs(res) THEN "write" ELSE "none"
    /\ wfail' = (wfail \/ res # "ok")
    /\ hist' = IF hist.on /\ who = "fwd" /\ res = "ok"
               THEN [hist EXCEPT !.out = Append(@, b)] ELSE hist

\* ------------------------------------------------------- readKey's two returns

ReturnKey(k) ==
    /\ key' = k
    /\ err' = "nil"
    /\ fpc' = "writeKey"
    /\ logged' = "none"

\* The forwarder prints the error (unless io.EOF) and goes on to write ESC.
ReturnErr(e) ==
    /\ key' = "NUL"
    /\ err' = e
    /\ fpc' = "writeEsc"
    /\ logged' = IF readLogs(e) THEN "read" ELSE "none"

\* -------------------------------------------------------------- the forwarder

\* select: default, no sender waits on done.
Fwd_Default ==
    /\ Running /\ fpc = "select" /\ mpc # "wbDone"
    /\ fpc' = "read"
    /\ Quiet
    /\ UNCHANGED <<stdin, inEnd, pipe, key, err, helper, readBracket, mpc,
                   dropRate, drops, timer, wfail, hist>>

\* select: case <-done, main is blocked in writeByte's done <- true.  The
\* forwarder returns; main's writeByte returns false and main leaves Drop.
Fwd_RecvDone ==
    /\ Running /\ fpc = "select" /\ mpc = "wbDone"
    /\ fpc' = "stopped"
    /\ mpc' = "stopped"
    /\ Quiet
    /\ UNCHANGED <<stdin, inEnd, pipe, key, err, helper, readBracket,
                   dropRate, drops, timer, wfail, hist>>

\* readKey: the outer ReadByte and the switch on its byte.
Fwd_Read ==
    /\ Running /\ fpc = "read" /\ CanRead
    /\ stdin' = Rest
    /\ Consumed
    /\ wrote' = None
    /\ LET r == readKeySwitch(ReadB) IN
         IF ReadErr # "nil" THEN ReturnErr(ReadErr) /\ UNCHANGED <<helper, readBracket>>
         ELSE CASE r.kind = "key" -> ReturnKey(r.key) /\ UNCHANGED <<helper, readBracket>>
                [] r.kind = "quit" -> ReturnErr("EOF") /\ UNCHANGED <<helper, readBracket>>
                [] r.kind = "pause" ->
                     /\ fpc' = "pauseOn" /\ logged' = "none"
                     /\ UNCHANGED <<key, err, helper, readBracket>>
                [] r.kind = "esc" ->
                     /\ fpc' = "escSelect" /\ logged' = "none"
                     /\ helper' = "reading" /\ readBracket' = <<>>
                     /\ UNCHANGED <<key, err>>
                [] OTHER ->
                     /\ fpc' = "read" /\ logged' = "none"
                     /\ UNCHANGED <<key, err, helper, readBracket>>
    /\ UNCHANGED <<inEnd, pipe, mpc, dropRate, drops, timer, wfail>>

\* pause <- true on a buffered channel: the send returns with main elsewhere.
Fwd_PauseOn_Buffered ==
    /\ Running /\ fpc = "pauseOn"
    /\ fpc' = "pauseRead"
    /\ Quiet
    /\ UNCHANGED <<stdin, inEnd, pipe, key, err, helper, readBracket, mpc,
                   dropRate, drops, timer, wfail, hist>>

\* pause <- true, received by main's case <-pause.
Fwd_PauseOn ==
    /\ Running /\ fpc = "pauseOn" /\ mpc = "select"
    /\ fpc' = "pauseRead"
    /\ mpc' = "paused"
    /\ Quiet
    /\ UNCHANGED <<stdin, inEnd, pipe, key, err, helper, readBracket,
                   dropRate, drops, timer, wfail, hist>>

\* The pause sub-loop's ReadByte.
Fwd_PauseRead ==
    /\ Running /\ fpc = "pauseRead" /\ CanRead
    /\ stdin' = Rest
    /\ Consumed
    /\ wrote' = None
    /\ IF ReadErr # "nil" THEN ReturnErr(ReadErr)
       ELSE /\ fpc' = IF endsPause(ReadB) THEN "pauseOff" ELSE "pauseRead"
            /\ logged' = "none"
            /\ UNCHANGED <<key, err>>
    /\ UNCHANGED <<inEnd, pipe, helper, readBracket, mpc, dropRate, drops, timer, wfail>>

\* pause <- false with main going on waiting on the timer it had before the
\* pause.
Fwd_PauseOff_Carry ==
    /\ Running /\ fpc = "pauseOff" /\ mpc = "paused"
    /\ fpc' = "read"
    /\ mpc' = "select"
    /\ Quiet
    /\ UNCHANGED <<stdin, inEnd, pipe, key, err, helper, readBracket,
                   dropRate, drops, timer, wfail, hist>>

\* pause <- false, received by main's <-pause inside case <-pause.  Main goes
\* round the Drop loop and its select makes a new time.After(dropRate).
Fwd_PauseOff ==
    /\ Running /\ fpc = "pauseOff" /\ mpc = "paused"
    /\ fpc' = "read"
    /\ mpc' = "select"
    /\ timer' = "fresh"
    /\ Quiet
    /\ UNCHANGED <<stdin, inEnd, pipe, key, err, helper, readBracket,
                   dropRate, drops, wfail, hist>>

\* The helper goroutine: ReadByte, then readBracket <- err == nil && b == '['.
Helper_Read ==
    /\ Running /\ helper = "reading" /\ CanRead
    /\ stdin' = Rest
    /\ Consumed
    /\ readBracket' = Append(readBracket, isBracket(ReadErr, ReadB))
    /\ helper' = "none"
    /\ Quiet
    /\ UNCHANGED <<inEnd, pipe, fpc, key, err, mpc, dropRate, drops, timer, wfail>>

\* select: case isBracket := <-readBracket.
Fwd_EscBracket ==
    /\ Running /\ fpc = "escSelect" /\ readBracket # <<>>
    /\ readBracket' = Tail(readBracket)
    /\ wrote' = None
    /\ IF Head(readBracket)
       THEN fpc' = "escRead" /\ logged' = "none" /\ UNCHANGED <<key, err>>
       ELSE ReturnErr("EOF")
    /\ UNCHANGED <<stdin, inEnd, pipe, helper, mpc, dropRate, drops, timer, wfail, hist>>

\* The timeout case falling out of the select: readKey goes on with its loop
\* while the helper is still in its ReadByte.
Fwd_EscTimeout_Continue ==
    /\ Running /\ fpc = "escSelect" /\ readBracket = <<>>
    /\ helper = "reading" /\ ~CanRead
    /\ fpc' = "read"
    /\ Quiet
    /\ UNCHANGED <<stdin, inEnd, pipe, key, err, helper, readBracket, mpc,
                   dropRate, drops, timer, wfail, hist>>

\* The select without its time.After case: only readBracket ends the wait.
Fwd_EscTimeout_Never ==
    /\ FALSE
    /\ UNCHANGED vars

\* select: case <-time.After(escTimeout).  The timeout wins only while the
\* helper's read has nothing to return: a byte that is there is read at once.
Fwd_EscTimeout ==
    /\ Running /\ fpc = "escSelect" /\ readBracket = <<>>
    /\ helper = "reading" /\ ~CanRead
    /\ wrote' = None
    /\ ReturnErr("EOF")
    /\ UNCHANGED <<stdin, inEnd, pipe, helper, readBracket, mpc, dropRate,
                   drops, timer, wfail, hist>>

\* The ReadByte after ESC [ and the switch on its byte.
Fwd_EscRead ==
    /\ Running /\ fpc = "escRead" /\ CanRead
    /\ stdin' = Rest
    /\ Consumed
    /\ wrote' = None
    /\ LET r == arrowSwitch(ReadB) IN
         IF ReadErr # "nil" THEN ReturnErr(ReadErr)
         ELSE IF r.kind = "key" THEN ReturnKey(r.key)
         ELSE fpc' = "read" /\ logged' = "none" /\ UNCHANGED <<key, err>>
    /\ UNCHANGED <<inEnd, pipe, helper, readBracket, mpc, dropRate, drops, timer, wfail>>

\* writeByte(key): on failure the forwarder blocks in writeByte's done <- true.
Fwd_WriteKey ==
    /\ Running /\ fpc = "writeKey"
    /\ \E res \in WriteResults :
         /\ writeByte("fwd", key, res)
         /\ fpc' = IF res = "ok" THEN "select" ELSE "wbDoneKey"
    /\ UNCHANGED <<stdin, inEnd, pipe, key, err, helper, readBracket, mpc,
                   dropRate, drops, timer>>

\* The forwarder going to done <- true without writing ESC.
Fwd_WriteEsc_Skipped ==
    /\ Running /\ fpc = "writeEsc"
    /\ fpc' = "sendDone"
    /\ Quiet
    /\ UNCHANGED <<stdin, inEnd, pipe, key, err, helper, readBracket, mpc,
                   dropRate, drops, timer, wfail, hist>>

\* writeByte('\x1b') after readKey failed; its result is ignored.
Fwd_WriteEsc ==
    /\ Running /\ fpc = "writeEsc"
    /\ \E res \in WriteResults :
         /\ writeByte("fwd", "ESC", res)
         /\ fpc' = IF res = "ok" THEN "sendDone" ELSE "wbDoneEsc"
    /\ UNCHANGED <<stdin, inEnd, pipe, key, err, helper, readBracket, mpc,
                   dropRate, drops, timer>>

\* ------------------------------------------------------------- the Drop loop

\* The forwarder's position after its send on done is received.
afterDone(pc) ==
    CASE pc = "wbDoneKey" -> "stopped"
      [] pc = "wbDoneEsc" -> "sendDone"
      [] pc = "sendDone" -> "stopped"
      [] OTHER -> pc

SendingDone(pc) == pc \in {"wbDoneKey", "wbDoneEsc", "sendDone"}

\* select: case <-done, the forwarder is blocked sending on done; break Drop,
\* main returns and the process exits.
Main_RecvDone ==
    /\ mpc = "select" /\ SendingDone(fpc)
    /\ mpc' = "stopped"
    /\ fpc' = afterDone(fpc)
    /\ Quiet
    /\ UNCHANGED <<stdin, inEnd, pipe, key, err, helper, readBracket,
                   dropRate, drops, timer, wfail, hist>>

\* select: case <-time.After(dropRate), once the timer has run its interval.
Main_Timer(cap) ==
    /\ mpc = "select" /\ drops < cap /\ timer = "due"
    /\ mpc' = "writeK"
    /\ Quiet
    /\ UNCHANGED <<stdin, inEnd, pipe, fpc, key, err, helper, readBracket,
                   dropRate, drops, timer, wfail, hist>>

\* writeByte('k'), then the update of dropRate and the next select with a new
\* time.After(dropRate); on failure main blocks in writeByte's done <- true.
Main_WriteK ==
    /\ mpc = "writeK"
    /\ \E res \in WriteResults :
         /\ writeByte("drv", "k", res)
         /\ mpc' = IF res = "ok" THEN "select" ELSE "wbDone"
         /\ dropRate' = IF res = "ok" THEN nextDropRate(dropRate) ELSE dropRate
         /\ drops' = IF res = "ok" THEN drops + 1 ELSE drops
         /\ timer' = IF res = "ok" THEN "fresh" ELSE timer
    /\ UNCHANGED <<stdin, inEnd, pipe, fpc, key, err, helper, readBracket>>

\* Time passes on the timer of the last time.After(dropRate): none of its
\* interval has elapsed ("fresh"), part of it ("running"), all of it ("due").
\* The timer a select left behind for case <-pause runs on during the pause;
\* nothing receives from it.
Tick ==
    /\ Running /\ mpc \in {"select", "paused"} /\ timer # "due"
    /\ timer' = IF timer = "fresh" THEN "running" ELSE "due"
    /\ Quiet
    /\ UNCHANGED <<stdin, inEnd, pipe, fpc, key, err, helper, readBracket, mpc,
                   dropRate, drops, wfail, hist>>

\* ------------------------------------------------------------ the environment

\* A key is typed.
KeyPress ==
    /\ Running /\ inEnd = "open" /\ Len(stdin) < MaxBuf
    /\ \E b \in Bytes : stdin' = Append(stdin, b)
    /\ Quiet
    /\ UNCHANGED <<inEnd, pipe, fpc, key, err, helper, readBracket, mpc,
                   dropRate, drops, timer, wfail, hist>>

\* stdin ends (end of file) or fails.
CloseStdin ==
    /\ Running /\ inEnd = "open"
    /\ \E e \in {"eof", "err"} : inEnd' = e
    /\ Quiet
    /\ UNCHANGED <<stdin, pipe, fpc, key, err, helper, readBracket, mpc,
                   dropRate, drops, timer, wfail, hist>>

\* The game closes its end of the pipe.
ClosePipe ==
    /\ Running /\ pipe = "open"
    /\ pipe' = "closed"
    /\ Quiet
    /\ UNCHANGED <<stdin, inEnd, fpc, key, err, helper, readBracket, mpc,
                   dropRate, drops, timer, wfail, hist>>

\* ----------------------------------------------------------- specifications

Start ==
    /\ inEnd = "open"
    /\ pipe = "open"
    /\ fpc = "select"
    /\ key = "NUL"
    /\ err = "nil"
    /\ helper = "none"
    /\ readBracket = <<>>
    /\ mpc = "select"
    /\ dropRate = initialDropRate
    /\ drops = 0
    /\ timer = "fresh"
    /\ wrote = None
    /\ logged = "none"
    /\ wfail = FALSE

Init ==
    /\ Start
    /\ stdin = <<>>
    /\ hist = [on |-> FALSE, in |-> <<>>, out |-> <<>>]

Forwarder ==
    \/ Fwd_Default \/ Fwd_RecvDone \/ Fwd_Read
    \/ Fwd_PauseOn \/ Fwd_PauseRead \/ Fwd_PauseOff
    \/ Helper_Read \/ Fwd_EscBracket \/ Fwd_EscTimeout \/ Fwd_EscRead
    \/ Fwd_WriteKey \/ Fwd_WriteEsc

Next ==
    \/ Forwarder
    \/ Main_RecvDone \/ Tick \/ Main_Timer(MaxDrops) \/ Main_WriteK
    \/ KeyPress \/ CloseStdin \/ ClosePipe

Spec == Init /\ [][Next]_vars

\* Runs of the Drop loop alone, on an idle terminal: no key is ever typed, so
\* the forwarder stays in its first ReadByte.
DropNext ==
    \/ Fwd_Default \/ Fwd_RecvDone
    \/ Tick \/ Main_Timer(DropRun) \/ Main_WriteK
    \/ ClosePipe

DropSpec == Init /\ [][DropNext]_vars

\* Scripted runs: the whole input is typed ahead, and the bytes read and the
\* forwarder's bytes are recorded.
Scenario1 == <<"w", "j", "s", "d", "q">>

Scripts ==
    { <<>>, Scenario1,
      <<"p">>, <<"p", "q", "ESC", "w", "SP", "s">>, <<"SP", "x", "p", "a">>,
      <<"ESC">>, <<"ESC", "[", "A">>, <<"ESC", "[", "x", "w">>, <<"ESC", "w">> }

ScriptInit ==
    /\ Start
    /\ stdin \in Scripts
    /\ hist = [on |-> TRUE, in |-> <<>>, out |-> <<>>]

ScriptNext ==
    \/ Forwarder
    \/ Main_RecvDone \/ Tick \/ Main_Timer(MaxDrops) \/ Main_WriteK
    \/ CloseStdin \/ ClosePipe

ScriptSpec == ScriptInit /\ [][ScriptNext]_vars

\* The scheduling the Go runtime gives: a goroutine that can step does step, a
\* timer fires, and a select whose channel case is ready again and again takes
\* it (select picks among its ready cases at random).  Nothing obliges the
\* environment to type a key, to end stdin or to close the pipe.
ForwarderSteps ==
    \/ Fwd_Default \/ Fwd_Read \/ Fwd_PauseRead \/ Fwd_EscBracket
    \/ Fwd_EscTimeout \/ Fwd_EscRead \/ Fwd_WriteKey \/ Fwd_WriteEsc

Fairness ==
    /\ WF_vars(ForwarderSteps)
    /\ WF_vars(Helper_Read)
    /\ WF_vars(Tick)
    /\ WF_vars(Main_Timer(MaxDrops) \/ Main_WriteK)
    /\ SF_vars(Fwd_RecvDone)
    /\ SF_vars(Main_RecvDone)
    /\ SF_vars(Fwd_PauseOn)
    /\ SF_vars(Fwd_PauseOff)

FairScript == ScriptSpec /\ Fairness

\* --------------------------------------------------------------------- claims

\* Both loops have stopped: main has returned, which ends the process.
AllStopped == mpc = "stopped"

Max(a, b) == IF a >= b THEN a ELSE b

\* C1: after N successful drops the interval is max(1000 ms - N * 1 ms, 0.4 ms),
\* and it is never below the 0.4 ms floor.
C1_DropRateSequence ==
    /\ dropRate = Max(initialDropRate - drops * dropRateDelta, finalDropRate)
    /\ dropRate >= finalDropRate

\* Shutdown has been raised: a send on done is blocked or has been received.
ShutdownRaised ==
    SendingDone(fpc) \/ mpc = "wbDone" \/ fpc = "stopped" \/ mpc = "stopped"

\* C2: once a send on done has been started or completed, no step writes a
\* byte to stdout.  It is stated of the runs in which no write has failed, so
\* that what refutes it does not rest on how stdout fails.
C2_NoByteAfterShutdown == [][(ShutdownRaised /\ ~wfail) => wrote' = None]_vars

\* No key has been typed or read, and in a scripted run none will be.
NoKey == stdin = <<>> /\ hist.in = <<>>

\* C3: with the pipe closed and no key ever pressed, both loops come to stop
\* while stdin stays open and silent, and nothing is printed to stderr.
C3_ClosedPipeStops ==
    /\ (pipe = "closed" /\ NoKey) ~> (AllStopped \/ inEnd # "open")
    /\ []((pipe = "closed" /\ NoKey /\ inEnd = "open") => logged = "none")

\* C4: the two loops are never both blocked on channel sends no one receives.
C4_NoChannelDeadlock ==
    ~(mpc = "wbDone" /\ (SendingDone(fpc) \/ fpc = "pauseOn"))

\* C5: when stdin ends or fails inside the pause sub-loop, the forwarder
\* writes the final ESC and the Drop loop comes to stop (unless a write fails).
C5_StopsFromPaused ==
    (fpc = "pauseRead" /\ stdin = <<>> /\ inEnd # "open") ~> (AllStopped \/ wfail)

\* The forwarder is inside the pause sub-loop: enter-pause has been received
\* and exit-pause has not.
InPauseLoop == fpc \in {"pauseRead", "pauseOff"}

\* C6: while the forwarder is inside the pause sub-loop main waits in Paused
\* and the last byte on stdout is not main's, and no step taken from Paused
\* writes main's 'k'.
C6_PauseFreezesGravity ==
    /\ [](InPauseLoop => (mpc = "paused" /\ wrote.who # "drv"))
    /\ [][(mpc = "paused") => (wrote'.who # "drv")]_vars

C6_Witness ==
    fpc = "pauseRead" /\ mpc = "paused" /\ drops > 0 /\ stdin # <<>>

\* A step reads the byte at the head of stdin.
ReadsHead == stdin # <<>> /\ stdin' = Tail(stdin)

\* A byte read inside the pause sub-loop writes nothing and returns nothing;
\* p or space ends the sub-loop and any other byte keeps the forwarder in it.
DiscardsInPause ==
    (fpc = "pauseRead" /\ ReadsHead) =>
        /\ wrote' = None
        /\ key' = key /\ err' = err
        /\ fpc' = IF Head(stdin) \in PauseKeys THEN "pauseOff" ELSE "pauseRead"

\* After exit-pause the forwarder is back in readKey's outer loop.
ResumesAfterPause ==
    (fpc = "pauseOff" /\ fpc' # fpc) => (fpc' = "read" /\ wrote' = None)

\* C7: a byte read inside the pause sub-loop that is neither p nor space
\* writes nothing, returns nothing and keeps the forwarder in the sub-loop; p
\* or space ends the sub-loop, and the forwarder goes back to readKey's outer
\* loop.
C7_PauseDiscardsInput == [][DiscardsInPause /\ ResumesAfterPause]_vars

C7_Witness ==
    fpc = "pauseRead" /\ mpc = "paused" /\ stdin # <<>> /\ Head(stdin) \in QuitKeys

IsPrefix(s, t) == Len(s) <= Len(t) /\ s = SubSeq(t, 1, Len(s))

\* The run's input is scenario 1 (in a scripted run no key is typed later).
IsScenario1 == hist.on /\ hist.in \o stdin = Scenario1

Scenario1Out == <<"i", "j", "k", "l", "ESC">>

\* C8: on input w j s d q the forwarder's bytes are a prefix of i j k l ESC at
\* any time, all of it once both loops have stopped with no write failed, and
\* both loops do stop unless a write fails.
C8_Scenario1 ==
    /\ [](IsScenario1 => IsPrefix(hist.out, Scenario1Out))
    /\ []((IsScenario1 /\ AllStopped /\ ~wfail) => hist.out = Scenario1Out)
    /\ [](IsScenario1 => <>(AllStopped \/ wfail))

C8_Witness ==
    IsScenario1 /\ AllStopped /\ ~wfail /\ hist.out = Scenario1Out /\ drops > 0

\* The alias table of the controls: i/w rotate, j/a left, k/s drop, l/d right.
Canonical(b) ==
    CASE b \in {"i", "w"} -> "i"
      [] b \in {"j", "a"} -> "j"
      [] b \in {"k", "s"} -> "k"
      [] b \in {"l", "d"} -> "l"
      [] OTHER -> "none"

\* A move alias read in the outer loop is returned as its canonical byte.
TranslatesAlias ==
    (fpc = "read" /\ ReadsHead /\ Head(stdin) \in MoveKeys) =>
        /\ fpc' = "writeKey"
        /\ key' = Canonical(Head(stdin))
        /\ err' = "nil"
        /\ wrote' = None

\* The forwarder writes the key readKey returned.
WritesKey == (fpc = "writeKey" /\ wrote'.who = "fwd") => wrote'.b = key

AfterQuit == {"sendDone", "wbDoneEsc", "stopped"}

\* A quit alias read in the outer loop makes readKey return io.EOF, unlogged.
QuitAliasFails ==
    (fpc = "read" /\ ReadsHead /\ Head(stdin) \in QuitKeys) =>
        (fpc' = "writeEsc" /\ err' = "EOF" /\ logged' = "none" /\ wrote' = None)

\* A ReadByte of the forwarder on an ended or failed stdin makes readKey fail.
ReadFailureFails ==
    (fpc \in {"read", "pauseRead", "escRead"} /\ stdin = <<>> /\ fpc' # fpc) =>
        /\ fpc' = "writeEsc"
        /\ err' = IF inEnd = "eof" THEN "EOF" ELSE "EIO"
        /\ wrote' = None

\* After readKey failed the forwarder makes one write, of ESC.
FailureWritesEsc ==
    (fpc = "writeEsc" /\ fpc' # fpc) =>
        \/ fpc' = "sendDone" /\ wrote' = [who |-> "fwd", b |-> "ESC"]
        \/ fpc' = "wbDoneEsc" /\ wrote' = None

\* After that write the forwarder neither writes nor returns to readKey.
StopsAfterEsc ==
    fpc \in AfterQuit => (fpc' \in AfterQuit /\ wrote'.who # "fwd" /\ key' = key)

\* C10: a quit alias read in the outer loop makes readKey fail with io.EOF; a
\* ReadByte on an ended or failed stdin makes it fail; the forwarder then
\* makes one write of ESC and never reads or writes again.
C10_QuitBecomesEsc ==
    [][QuitAliasFails /\ ReadFailureFails /\ FailureWritesEsc /\ StopsAfterEsc]_vars

C10_Witness ==
    fpc = "sendDone" /\ err = "EOF" /\ wrote = [who |-> "fwd", b |-> "ESC"]

\* The arrow keys of the controls: up rotates, down drops, right, left.
ArrowCanonical(b) ==
    CASE b = "A" -> "i"
      [] b = "B" -> "k"
      [] b = "C" -> "l"
      [] b = "D" -> "j"
      [] OTHER -> "none"

\* While the byte after ESC is there to read, the forwarder leaves the select
\* through readBracket only: the timeout does not fire.
BracketBeatsTimeout ==
    (fpc = "escSelect" /\ stdin # <<>> /\ fpc' # fpc) => readBracket # <<>>

\* A '[' read by the helper is reported as a bracket, and the forwarder goes
\* on to read the byte after it.
BracketIsSeen ==
    /\ (fpc = "escSelect" /\ helper = "reading" /\ ReadsHead /\ Head(stdin) = "[") =>
           (readBracket' = <<TRUE>> /\ fpc' = fpc /\ wrote' = None)
    /\ (fpc = "escSelect" /\ readBracket = <<TRUE>> /\ fpc' # fpc) =>
           (fpc' = "escRead" /\ wrote' = None /\ key' = key /\ err' = err)

\* A, B, C or D read after ESC [ is returned as i, k, l or j.
TranslatesArrow ==
    (fpc = "escRead" /\ ReadsHead /\ Head(stdin) \in ArrowKeys) =>
        /\ fpc' = "writeKey"
        /\ key' = ArrowCanonical(Head(stdin))
        /\ err' = "nil"
        /\ wrote' = None

\* C11: ESC, then '[' read before the escape timeout, then A, B, C or D makes
\* readKey return i, k, l or j, which is the one byte the forwarder writes.
C11_ArrowKeys ==
    [][BracketBeatsTimeout /\ BracketIsSeen /\ TranslatesArrow /\ WritesKey]_vars

C11_Witness ==
    fpc = "escRead" /\ helper = "none" /\ stdin # <<>> /\ Head(stdin) = "C"

\* ESC was read and no byte follows it: the helper's ReadByte is pending on an
\* idle terminal.
LoneEsc ==
    /\ fpc = "escSelect" /\ helper = "reading" /\ readBracket = <<>>
    /\ stdin = <<>> /\ inEnd = "open"

\* From there the forwarder leaves the select through the timeout: readKey
\* returns io.EOF, unlogged, with no byte read and the helper still reading.
LoneEscTimesOut ==
    (LoneEsc /\ fpc' # fpc) =>
        /\ fpc' = "writeEsc" /\ err' = "EOF" /\ logged' = "none"
        /\ stdin' = stdin /\ helper' = "reading" /\ wrote' = None

\* After a timeout on a lone ESC the forwarder reads nothing more.
NoReadAfterTimeout ==
    (fpc \in ({"writeEsc"} \cup AfterQuit) /\ helper = "reading" /\ stdin' # stdin) =>
        (helper' = "none" /\ fpc' = fpc)

\* C12: a lone ESC with no byte after it for the escape timeout makes readKey
\* return io.EOF; the forwarder then makes its one write of ESC and goes to
\* its shutdown signal, and it gets there with no further byte typed.
C12_LoneEscQuits ==
    /\ [][LoneEscTimesOut /\ FailureWritesEsc /\ NoReadAfterTimeout]_vars
    /\ (LoneEsc ~> fpc \in AfterQuit)

C12_Witness ==
    /\ fpc = "sendDone" /\ helper = "reading" /\ err = "EOF"
    /\ hist.in = <<"ESC">> /\ hist.out = <<"ESC">> /\ inEnd = "open"

\* The five command bytes of the wire.
Wire == {"i", "j", "k", "l", "ESC"}

\* C13: every byte written to stdout, by the forwarder or by the Drop loop, is
\* one of i, j, k, l and ESC, whatever was typed.
C13_WireAlphabet == wrote # None => wrote.b \in Wire

C13_Witness ==
    wrote = [who |-> "fwd", b |-> "l"] /\ drops > 0 /\ wfail

\* A step in which writeByte's Write was made: by the forwarder, by main.
FwdWrites == fpc \in {"writeKey", "writeEsc"} /\ fpc' # fpc
DrvWrites == mpc = "writeK" /\ mpc' # mpc

\* The write succeeded: the byte is on stdout, nothing is printed, and
\* writeByte returns true without sending on done (the caller carries on).
WriteOkReturnsTrue ==
    /\ (FwdWrites /\ wrote' # None) =>
           /\ wrote' = [who |-> "fwd", b |-> IF fpc = "writeKey" THEN key ELSE "ESC"]
           /\ fpc' = (IF fpc = "writeKey" THEN "select" ELSE "sendDone")
           /\ logged' = "none"
    /\ (DrvWrites /\ wrote' # None) =>
           /\ wrote' = [who |-> "drv", b |-> "k"]
           /\ mpc' = "select" /\ drops' = drops + 1
           /\ logged' = "none"

\* The write failed: writeByte goes to done <- true, and has printed the error
\* exactly when it is not EPIPE, the error of a write to a closed pipe.
WriteFailSignals ==
    /\ (FwdWrites /\ wrote' = None) =>
           /\ fpc' = (IF fpc = "writeKey" THEN "wbDoneKey" ELSE "wbDoneEsc")
           /\ (logged' = "write") = (pipe = "open")
    /\ (DrvWrites /\ wrote' = None) =>
           /\ mpc' = "wbDone" /\ drops' = drops /\ dropRate' = dropRate
           /\ (logged' = "write") = (pipe = "open")

\* A write error is printed by a failed write only.
LogsOnlyFailure ==
    logged' = "write" => ((FwdWrites \/ DrvWrites) /\ wrote' = None)

\* A successful write's caller never arrives in writeByte's done <- true, and
\* once that send is received writeByte returns false: the forwarder returns
\* (after writeByte(key)), main leaves the Drop loop.
FalseOnlyAfterFailure ==
    /\ (fpc' \in {"wbDoneKey", "wbDoneEsc"} /\ fpc' # fpc) => (FwdWrites /\ wrote' = None)
    /\ (mpc' = "wbDone" /\ mpc' # mpc) => (DrvWrites /\ wrote' = None)
    /\ (fpc = "wbDoneKey" /\ fpc' # fpc) => (fpc' = "stopped" /\ mpc = "select")
    /\ (mpc = "wbDone" /\ mpc' # mpc) => (mpc' = "stopped" /\ fpc = "select")

\* C14: writeByte returns true exactly when its write succeeded, and then has
\* not sent on done; on a failed write it sends on done and returns false once
\* the send is received; it prints the error exactly when it is not EPIPE.
C14_WriteByteContract ==
    [][WriteOkReturnsTrue /\ WriteFailSignals /\ LogsOnlyFailure /\ FalseOnlyAfterFailure]_vars

C14_Witness ==
    fpc = "wbDoneKey" /\ pipe = "closed" /\ logged = "none" /\ wrote = None /\ drops > 0

\* Main is sending on done after a failed write, and the forwarder makes a
\* second send on done (from writeByte, or its own after the final ESC).
SecondSignal == mpc = "wbDone" /\ SendingDone(fpc)

\* C15: signalling shutdown a second time is harmless: a goroutine that sends
\* on done while another send on done is pending is not blocked by it, and
\* the program goes on to stop.
C15_SecondSignalHarmless == SecondSignal ~> AllStopped

\* dropRate changes only in main's step after a successful write of 'k', and
\* then by dropRateDelta.
DropRateFrame ==
    dropRate' # dropRate =>
        /\ mpc = "writeK" /\ wrote' = [who |-> "drv", b |-> "k"]
        /\ dropRate' = dropRate - dropRateDelta

\* C16: dropRate never grows, and it changes only after a successful drop
\* emission, by exactly dropRateDelta: the forwarder's steps, the pause and
\* resume handshakes, a failed drop emission and a shutdown leave it as it is.
C16_DropRateFrame == [][DropRateFrame /\ dropRate' <= dropRate]_vars

C16_Witness ==
    mpc = "paused" /\ fpc = "pauseOff" /\ dropRate = initialDropRate - 2 * dropRateDelta

\* A byte other than A, B, C, D read after ESC [ is dropped: readKey returns
\* nothing and goes back to its outer ReadByte.
DropsNonArrow ==
    (fpc = "escRead" /\ ReadsHead /\ Head(stdin) \notin ArrowKeys) =>
        /\ fpc' = "read"
        /\ key' = key /\ err' = err
        /\ wrote' = None /\ logged' = "none"
        /\ helper' = helper /\ readBracket' = readBracket

\* Between ESC [ and the end of that readKey call the forwarder only reads.
EscReadOnlyReads ==
    (fpc = "escRead" /\ fpc' # fpc) => (stdin' = Rest /\ wrote' = None)

\* C18: a byte other than A, B, C, D after ESC [ gives no command and no quit;
\* the byte is consumed and readKey goes on with its outer loop, which ends on
\* the next alias or when a read fails.
C18_OtherAfterBracket == [][DropsNonArrow /\ EscReadOnlyReads]_vars

C18_Witness ==
    fpc = "escRead" /\ helper = "none" /\ stdin # <<>> /\ Head(stdin) = "k"

\* The helper's ReadByte returning anything but '[' (a read error included)
\* consumes what it read and reports false.
HelperReportsOther ==
    (helper = "reading" /\ helper' = "none" /\ ~(stdin # <<>> /\ Head(stdin) = "[")) =>
        /\ readBracket' = <<FALSE>>
        /\ stdin' = Rest
        /\ fpc' = fpc /\ key' = key /\ err' = err
        /\ wrote' = None /\ logged' = "none"

\* On that report readKey returns io.EOF, whatever the error was, and nothing
\* is printed.
OtherThanBracketFails ==
    (fpc = "escSelect" /\ readBracket = <<FALSE>> /\ fpc' # fpc) =>
        /\ fpc' = "writeEsc" /\ err' = "EOF" /\ key' = "NUL"
        /\ logged' = "none" /\ wrote' = None
        /\ stdin' = stdin

\* C19: ESC followed in time by a byte other than '[', or by a read error,
\* makes readKey return io.EOF as a lone ESC does; the byte is consumed by the
\* helper and is never translated, a command alias included.
C19_EscThenOther ==
    [][HelperReportsOther /\ OtherThanBracketFails /\ StopsAfterEsc]_vars

C19_Witness ==
    fpc = "escSelect" /\ readBracket = <<FALSE>> /\ inEnd = "open" /\ stdin # <<>>

\* The positions at which the forwarder is in, or on its way to, a ReadByte.
ReadingPcs ==
    {"select", "read", "pauseOn", "pauseRead", "pauseOff", "escRead",
     "writeKey", "wbDoneKey"}

\* C20: stdin has at most one ReadByte in flight: while the helper's ReadByte
\* is pending the forwarder is waiting in the ESC select or, after the
\* timeout, on its way out without another read; whenever the forwarder reads
\* after an ESC the helper's ReadByte has returned.
C20_OneReader == helper = "reading" => fpc \notin ReadingPcs

C20_Witness ==
    helper = "reading" /\ fpc = "sendDone" /\ stdin # <<>>

\* The exit-pause handshake puts main back in its select with a timer of which
\* nothing has elapsed.
ResumeRearms == (mpc = "paused" /\ mpc' = "select") => timer' = "fresh"

\* While main waits in its select the timer only runs on, a part at a time.
TimerRunsOn ==
    (mpc = "select" /\ mpc' = "select" /\ timer' # timer) =>
        \/ timer = "fresh" /\ timer' = "running"
        \/ timer = "running" /\ timer' = "due"

\* Main leaves its select for a drop only when the whole interval has elapsed.
DropAfterInterval == (mpc = "select" /\ mpc' = "writeK") => timer = "due"

\* C17: after the exit-pause handshake main waits on a new timer of the full
\* dropRate: what had elapsed before or during the pause is not carried over,
\* and the next drop comes a whole interval after the resume.
C17_ResumeRestartsTimer ==
    [][ResumeRearms /\ TimerRunsOn /\ DropAfterInterval]_vars

C17_Witness ==
    /\ hist.in = <<"SP", "x", "p">> /\ fpc = "read"
    /\ mpc = "select" /\ timer = "fresh" /\ drops > 0

====
